---- MODULE Spec2Model ----
(***************************************************************************)
(* Model of the USDA reader of tinyusdz (src/src/usda-reader.cc):          *)
(* USDAReader::Impl with its flat PrimNode / PrimSpecNode stores, the      *)
(* callbacks it registers on the ASCII parser, ReconstructStage and        *)
(* GetAsLayer.  Store index i of the C++ vectors is element i + 1 of the   *)
(* sequences below.  _err / _warn are kept as sequences of messages; a      *)
(* message is the sequence of its fragments (fixed text, then the values   *)
(* streamed into it).  A name is the sequence of its characters.           *)
(***************************************************************************)
EXTENDS Integers, Sequences, FiniteSets, TLC

\* ------------------------------------------------------------------ bounds
\* Prim headers the parser meets during one Read.
MaxPrims == 3
\* Child indices listed in the variants of one Prim header.
MaxVariantRefs == 2
\* Facade calls (ReconstructStage, GetAsLayer) made around the Read.
MaxApiCalls == 2

VARIABLES
  prim_nodes,            \* _prim_nodes
  toplevel_prims,        \* _toplevel_prims
  primspec_nodes,        \* _primspec_nodes
  toplevel_primspecs,    \* _toplevel_primspecs
  primspec_invalidated,  \* _primspec_invalidated
  err,                   \* _err
  warn,                  \* _warn
  stage,                 \* _stage (root_prims)
  layer,                 \* the caller's Layer handed to GetAsLayer
  phase,                 \* position of Read: idle, header, parsing, unwinding, done, failed
  loadState,             \* LoadState argument of Read
  pstack,                \* the parser's stack of open Prim blocks
  assigned,              \* indices returned by the index-assign callback, in call order
  nHeaders,              \* Prim headers seen by the parser
  nCalls,                \* facade calls made so far
  inputKind,             \* the kind of text the parser is fed: see InputKinds
  config,                \* _config, as set by set_reader_config before Read
  registered,            \* the callbacks Read has registered with the parser
  last                   \* the last operation, its inputs and its return value

vars == <<prim_nodes, toplevel_prims, primspec_nodes, toplevel_primspecs,
          primspec_invalidated, err, warn, stage, layer, phase, loadState,
          pstack, assigned, nHeaders, nCalls, inputKind, config,
          registered, last>>

\* ------------------------------------------------------------ basic values
LoadStates == {"Toplevel", "Reference", "SubLayer", "Payload"}

\* (variantSet name, variant name) pairs, in std::map iteration order.
VariantKeyOrder == << <<"v", "a">>, <<"v", "b">>, <<"w", "a">> >>
VariantKeys == {VariantKeyOrder[i] : i \in 1..Len(VariantKeyOrder)}

EmptyMap == [k \in {} |-> <<>>]

At(s, i) == s[i + 1]

SeqToSet(s) == {s[i] : i \in 1..Len(s)}

\* ---------------------------------------------------------------- messages
PushError(e, s) == e \o <<s>>

\* PushWarn appends to _err, exactly as PushError does.
PushWarn(e, w, s) == [err |-> e \o <<s>>, warn |-> w]

\* ------------------------------------------------------------------ stores
DefaultPrimMeta ==
  LET unset == [set |-> FALSE, qual |-> "", val |-> <<>>]
  IN [active |-> "unset", hidden |-> "unset", kind |-> "unset",
      sceneName |-> unset, displayName |-> unset, customData |-> unset,
      assetInfo |-> unset, variants |-> unset, inherits |-> unset,
      specializes |-> unset, variantSets |-> unset,
      apiSchemas |-> [set |-> FALSE, qual |-> "", names |-> <<>>],
      references |-> unset, payload |-> unset, comment |-> unset]

NullPrim == [ty |-> "null", name |-> <<>>, spec |-> "", meta |-> DefaultPrimMeta,
             prim_type_name |-> ""]

DefaultPrimNode == [prim |-> NullPrim, typeName |-> "", parent |-> -1,
                    parent_is_variant |-> FALSE, children |-> <<>>,
                    variantNodeMap |-> EmptyMap]

DefaultPrimSpec == [name |-> <<>>, specifier |-> "", typeName |-> "", children |-> <<>>]

DefaultPrimSpecNode == [primSpec |-> DefaultPrimSpec, parent |-> -1, children |-> <<>>]

\* The part of StageMetas the stage-metadata callback decides on.
DefaultStageMetas == [playbackMode |-> "unset"]

\* USDAReaderConfig with its defaults.
DefaultConfig == [allow_unknown_prims |-> TRUE]

\* std::vector::resize(n) when n exceeds the size.
RECURSIVE Resize(_, _, _)
Resize(s, n, d) == IF Len(s) >= n THEN s ELSE Resize(Append(s, d), n, d)

\* --------------------------------------------------- stage-metadata callback
StageMetaProcessorAcceptAny(playbackMode, metas, e) ==
  IF playbackMode = "" THEN [ok |-> TRUE, metas |-> metas, err |-> e]
  ELSE IF playbackMode = "none"
  THEN [ok |-> TRUE, metas |-> [metas EXCEPT !.playbackMode = "PlaybackModeNone"], err |-> e]
  ELSE IF playbackMode = "loop"
  THEN [ok |-> TRUE, metas |-> [metas EXCEPT !.playbackMode = "PlaybackModeLoop"], err |-> e]
  ELSE [ok |-> TRUE, metas |-> metas, err |-> e]

\* The lambda registered by StageMetaProcessor; playbackMode is "" when the
\* text does not author it.
StageMetaProcessor(playbackMode, metas, e) ==
  IF playbackMode = "" THEN [ok |-> TRUE, metas |-> metas, err |-> e]
  ELSE IF playbackMode = "none"
  THEN [ok |-> TRUE, metas |-> [metas EXCEPT !.playbackMode = "PlaybackModeNone"], err |-> e]
  ELSE IF playbackMode = "loop"
  THEN [ok |-> TRUE, metas |-> [metas EXCEPT !.playbackMode = "PlaybackModeLoop"], err |-> e]
  ELSE [ok |-> FALSE, metas |-> metas,
        err |-> PushError(e, <<"Unsupported playbackMode: ", playbackMode>>)]

\* ----------------------------------------------------- index-assign callback
PrimIdxAssignNoGrow(nodes, parentPrimIdx) ==
  [idx |-> Len(nodes),
   nodes |-> IF parentPrimIdx < 0 THEN Resize(nodes, Len(nodes) + 1, DefaultPrimNode)
             ELSE nodes]

PrimIdxAssign(nodes, parentPrimIdx) ==
  [idx |-> Len(nodes), nodes |-> Resize(nodes, Len(nodes) + 1, DefaultPrimNode)]

\* -------------------------------------------------------- metadata decoder
\* Entries of one metadata map the decoder is applied to.
MaxMetaEntries == 2
MaxTargets == 2
MaxTreeEdges == 3

\* A raw metadata entry of AsciiParser::PrimMetaMap: key, list-edit
\* qualifier, the type the MetaVariable holds and its value as a sequence of
\* tokens (for a dictionary: the types of its elements).
MetaEntry(k, q, t, v) == [key |-> k, qual |-> q, ty |-> t, val |-> v]

\* A PrimMeta field authored with qualifier q and value v.
MetaSet(q, v) == [set |-> TRUE, qual |-> q, val |-> v]

ApiSchemaNames == {"SkelBindingAPI", "MaterialBindingAPI",
                   "Preliminary_PhysicsMaterialAPI",
                   "Preliminary_PhysicsRigidBodyAPI",
                   "Preliminary_PhysicsColliderAPI"}

ApiSchemaHandlerAcceptAll(tok) == TRUE

\* ApiSchemaHandler / EnumHandler: TRUE when the token is an allowed API name.
ApiSchemaHandler(tok) == tok \in ApiSchemaNames

\* The loop over the tokens of an apiSchemas value: recognized names are
\* kept in order, every other name raises a warning.
RECURSIVE ApiSchemaLoop(_, _, _, _, _)
ApiSchemaLoop(toks, i, names, e, w) ==
  IF i > Len(toks) THEN [names |-> names, err |-> e, warn |-> w]
  ELSE IF ApiSchemaHandler(toks[i])
       THEN ApiSchemaLoop(toks, i + 1, Append(names, toks[i]), e, w)
       ELSE LET pw == PushWarn(e, w, <<"(PrimMeta) apiSchemas: unknown name ", toks[i]>>)
            IN ApiSchemaLoop(toks, i + 1, names, pw.err, pw.warn)

\* The if-chain over tok.str() of the `kind` branch: the Kind enum value, or
\* "" when no comparison matches.
KindOfToken(tok) ==
  IF tok = "subcomponent" THEN "Kind::Subcomponent"
  ELSE IF tok = "component" THEN "Kind::Component"
  ELSE IF tok = "model" THEN "Kind::Model"
  ELSE IF tok = "group" THEN "Kind::Group"
  ELSE IF tok = "assembly" THEN "Kind::Assembly"
  ELSE IF tok = "sceneLibrary" THEN "Kind::SceneLibrary"
  ELSE ""

\* BuildVariants: "" when every element of the dictionary is a string, else
\* the type of the first element that is not.
BuildVariants(dict) ==
  LET bad == SelectSeq(dict, LAMBDA t : t \notin {"string", "StringData"})
  IN IF bad = <<>> THEN "" ELSE Head(bad)

\* The message of the branches that reject the type of a value.
MetaTypeError(key, expected, ty) ==
  <<"(Internal error?) metadataum is not type ", key, expected, ty>>

\* ReconstructPrimMeta: dispatch on the key of each entry, in map order.
\* get_value<T>() yields a value exactly when the MetaVariable holds a T.
RECURSIVE ReconstructPrimMeta(_, _, _, _, _)
ReconstructPrimMeta(in_meta, i, out, e, w) ==
  IF i > Len(in_meta) THEN [ok |-> TRUE, meta |-> out, err |-> e, warn |-> w]
  ELSE LET m == in_meta[i]
           Fail(msg) == [ok |-> FALSE, meta |-> out, err |-> PushError(e, msg), warn |-> w]
           Continue(out2) == ReconstructPrimMeta(in_meta, i + 1, out2, e, w)
       IN CASE m.key = "active" ->
                 IF m.ty = "bool" THEN Continue([out EXCEPT !.active = m.val[1]])
                 ELSE Fail(MetaTypeError("active", "bool", m.ty))
            [] m.key = "hidden" ->
                 IF m.ty = "bool" THEN Continue([out EXCEPT !.hidden = m.val[1]])
                 ELSE Fail(MetaTypeError("hidden", "bool", m.ty))
            [] m.key = "sceneName" ->
                 IF m.ty = "string" THEN Continue([out EXCEPT !.sceneName = MetaSet("", m.val)])
                 ELSE Fail(MetaTypeError("sceneName", "string", m.ty))
            [] m.key = "displayName" ->
                 IF m.ty = "string" THEN Continue([out EXCEPT !.displayName = MetaSet("", m.val)])
                 ELSE Fail(MetaTypeError("displayName", "string", m.ty))
            [] m.key = "kind" ->
                 IF m.ty = "token"
                 THEN IF KindOfToken(m.val[1]) # ""
                      THEN Continue([out EXCEPT !.kind = KindOfToken(m.val[1])])
                      ELSE Fail(<<"Invalid token for 'kind' metadataum.">>)
                 ELSE Fail(MetaTypeError("kind", "token", m.ty))
            [] m.key = "customData" ->
                 IF m.ty = "dictionary" THEN Continue([out EXCEPT !.customData = MetaSet("", m.val)])
                 ELSE Fail(MetaTypeError("customData", "dictionary", m.ty))
            [] m.key = "assetInfo" ->
                 IF m.ty = "dictionary" THEN Continue([out EXCEPT !.assetInfo = MetaSet("", m.val)])
                 ELSE Fail(MetaTypeError("assetInfo", "dictionary", m.ty))
            [] m.key = "variants" ->
                 IF m.ty = "dictionary"
                 THEN IF BuildVariants(m.val) = ""
                      THEN Continue([out EXCEPT !.variants = MetaSet("", m.val)])
                      ELSE Fail(<<"TinyUSDZ only accepts 'string' value for 'variants' element, but got type ",
                                  BuildVariants(m.val)>>)
                 ELSE Fail(MetaTypeError("variants", "dictionary", m.ty))
            [] m.key = "inherits" ->
                 IF m.ty = "None" THEN Continue([out EXCEPT !.inherits = MetaSet(m.qual, <<>>)])
                 ELSE IF m.ty \in {"path[]", "path"}
                 THEN Continue([out EXCEPT !.inherits = MetaSet(m.qual, m.val)])
                 ELSE Fail(MetaTypeError("inherits", "path or path[]", m.ty))
            [] m.key = "specializes" ->
                 IF m.ty = "None" THEN Continue([out EXCEPT !.specializes = MetaSet(m.qual, <<>>)])
                 ELSE IF m.ty \in {"path[]", "path"}
                 THEN Continue([out EXCEPT !.specializes = MetaSet(m.qual, m.val)])
                 ELSE Fail(MetaTypeError("specializes", "path or path[]", m.ty))
            [] m.key = "variantSets" ->
                 IF m.ty = "None" THEN Continue([out EXCEPT !.variantSets = MetaSet(m.qual, <<>>)])
                 ELSE IF m.ty \in {"StringData", "string", "string[]"}
                 THEN Continue([out EXCEPT !.variantSets = MetaSet(m.qual, m.val)])
                 ELSE Fail(MetaTypeError("variantSets", "string or string[]", m.ty))
            [] m.key = "apiSchemas" ->
                 IF m.ty = "token[]"
                 THEN IF m.qual # "Prepend" /\ m.qual # "ResetToExplicit"
                      THEN Fail(<<"(PrimMeta) ListEdit op for 'apiSchemas' must be empty or 'prepend' in TinyUSDZ, but got ",
                                  m.qual>>)
                      ELSE LET r == ApiSchemaLoop(m.val, 1, <<>>, e, w)
                           IN ReconstructPrimMeta(in_meta, i + 1,
                                [out EXCEPT !.apiSchemas =
                                   [set |-> TRUE, qual |-> m.qual, names |-> r.names]],
                                r.err, r.warn)
                 ELSE Fail(MetaTypeError("apiSchemas", "token[]", m.ty))
            [] m.key = "references" ->
                 IF m.ty = "None" THEN Continue([out EXCEPT !.references = MetaSet(m.qual, <<>>)])
                 ELSE IF m.ty \in {"Reference", "Reference[]"}
                 THEN Continue([out EXCEPT !.references = MetaSet(m.qual, m.val)])
                 ELSE Fail(MetaTypeError("references", "path or path[]", m.ty))
            [] m.key = "payload" ->
                 IF m.ty = "None" THEN Continue([out EXCEPT !.payload = MetaSet(m.qual, <<>>)])
                 ELSE IF m.ty \in {"Reference", "Reference[]"}
                 THEN Continue([out EXCEPT !.payload = MetaSet(m.qual, m.val)])
                 ELSE Fail(MetaTypeError("references", "path or path[]", m.ty))
            [] m.key = "comment" ->
                 IF m.ty \in {"StringData", "string"}
                 THEN Continue([out EXCEPT !.comment = MetaSet("", m.val)])
                 ELSE Continue(out)
            [] OTHER ->
                 LET pw == PushWarn(e, w, <<"TODO: Prim metadataum : ", m.key>>)
                 IN ReconstructPrimMeta(in_meta, i + 1, out, pw.err, pw.warn)

\* Raw metadata maps the parser hands to the callbacks in this model.
MetaNone == <<>>
MetaUnknownKey == <<MetaEntry("foo", "ResetToExplicit", "string", <<"x">>)>>
MetaUnknownApi == <<MetaEntry("apiSchemas", "Prepend", "token[]", <<"FooAPI">>)>>
MetaBadActive == <<MetaEntry("active", "ResetToExplicit", "string", <<"x">>)>>
MetaInputs == {MetaNone, MetaUnknownKey, MetaUnknownApi, MetaBadActive}

\* The texts of a run vary in one respect: they nest Prims in variants, or
\* carry metadata that raises warnings, or declare Prims of several types,
\* or carry stage metadata, or name Prims "A" and "B"; all carry metadata
\* that raises an error.
InputKinds == {"variants", "metadata", "types", "stageMetas", "names"}

MetaInputsOf(kind) == IF kind = "metadata" THEN MetaInputs ELSE {MetaNone, MetaBadActive}

\* An input whose only effect on the channels is a warning.
WarnOnlyMeta(in_meta) == in_meta \in {MetaUnknownKey, MetaUnknownApi}

\* ------------------------------------------------------------------- paths
\* A Path as the callbacks see it: validity, absoluteness and its parts.
MkPath(v, a, prim, prop) == [valid |-> v, absolute |-> a, prim_part |-> prim, prop_part |-> prop]

PathNameA == MkPath(TRUE, FALSE, <<"A">>, <<>>)
PathNameB == MkPath(TRUE, FALSE, <<"B">>, <<>>)
PathInvalid == MkPath(FALSE, FALSE, <<>>, <<>>)
PathAbsolute == MkPath(TRUE, TRUE, <<"/", "A">>, <<>>)
PathWithProp == MkPath(TRUE, FALSE, <<"A">>, <<"p">>)
PathInputs == {PathNameA, PathInvalid, PathAbsolute, PathWithProp}

\* The name checks shared by the prim-construct callbacks; "" when the name passes.
PrimNameError(prim_name) ==
  IF ~prim_name.valid THEN "Invalid Prim name"
  ELSE IF prim_name.absolute THEN "Prim name should not start with /"
  ELSE IF prim_name.prop_part # <<>> THEN "Prim path should not contain property part"
  ELSE ""

\* ------------------------------------------------- typed prim-construct callback
PresentKeys(m) == SelectSeq(VariantKeyOrder, LAMBDA k : k \in DOMAIN m)

MarkVariantChildSkipped(nodes, childPrimIdx) == nodes

\* _prim_nodes[childPrimIdx].parent_is_variant = true
MarkVariantChild(nodes, childPrimIdx) ==
  [nodes EXCEPT ![childPrimIdx + 1].parent_is_variant = TRUE]

\* The loop over one variant's primIndices: range checks, then the child's
\* parent_is_variant flag is set in the store.
RECURSIVE VariantIndexLoop(_, _, _, _)
VariantIndexLoop(primIndices, j, primChildren, nodes) ==
  IF j > Len(primIndices)
  THEN [ok |-> TRUE, primChildren |-> primChildren, nodes |-> nodes]
  ELSE LET childPrimIdx == primIndices[j]
       IN IF childPrimIdx < 0 \/ childPrimIdx >= Len(nodes)
          THEN [ok |-> FALSE, primChildren |-> primChildren, nodes |-> nodes]
          ELSE VariantIndexLoop(primIndices, j + 1, Append(primChildren, childPrimIdx),
                 MarkVariantChild(nodes, childPrimIdx))

\* The loop over (variantSet, variant) of in_variants: VariantContent -> VariantNode.
RECURSIVE VariantSetLoop(_, _, _, _, _, _, _)
VariantSetLoop(keys, k, in_variants, variantSets, nodes, e, w) ==
  IF k > Len(keys)
  THEN [ok |-> TRUE, variantSets |-> variantSets, nodes |-> nodes, err |-> e, warn |-> w]
  ELSE LET item == in_variants[keys[k]]
           vm == ReconstructPrimMeta(item.metas, 1, DefaultPrimMeta, e, w)
       IN IF ~vm.ok
          THEN [ok |-> FALSE, variantSets |-> variantSets, nodes |-> nodes,
                err |-> vm.err, warn |-> vm.warn]
          ELSE LET il == VariantIndexLoop(item.primIndices, 1, <<>>, nodes)
               IN IF ~il.ok
                  THEN [ok |-> FALSE, variantSets |-> variantSets, nodes |-> il.nodes,
                        err |-> vm.err, warn |-> vm.warn]
                  ELSE VariantSetLoop(keys, k + 1, in_variants,
                         [x \in (DOMAIN variantSets) \cup {keys[k]} |->
                            IF x = keys[k]
                            THEN [metas |-> vm.meta, primChildren |-> il.primChildren]
                            ELSE variantSets[x]],
                         il.nodes, vm.err, vm.warn)

StoreParentReversed(nodes, primIdx, parentPrimIdx) ==
  IF parentPrimIdx = -1 THEN nodes
  ELSE [nodes EXCEPT ![parentPrimIdx + 1].parent = primIdx]

\* _prim_nodes[primIdx].parent = parentPrimIdx
StoreParent(nodes, primIdx, parentPrimIdx) ==
  [nodes EXCEPT ![primIdx + 1].parent = parentPrimIdx]

LinkPrimRootsOnly(nodes, toplevel, primIdx, parentPrimIdx) ==
  IF parentPrimIdx = -1
  THEN [nodes |-> nodes, toplevel |-> Append(toplevel, primIdx)]
  ELSE [nodes |-> nodes, toplevel |-> toplevel]

LinkPrimTwice(nodes, toplevel, primIdx, parentPrimIdx) ==
  IF parentPrimIdx = -1
  THEN [nodes |-> nodes, toplevel |-> Append(toplevel, primIdx)]
  ELSE [nodes |-> [nodes EXCEPT ![parentPrimIdx + 1].children = Append(@, primIdx)],
        toplevel |-> Append(toplevel, primIdx)]

\* Append primIdx to the top-level list or to the parent's children list.
LinkPrim(nodes, toplevel, primIdx, parentPrimIdx) ==
  IF parentPrimIdx = -1
  THEN [nodes |-> nodes, toplevel |-> Append(toplevel, primIdx)]
  ELSE [nodes |-> [nodes EXCEPT ![parentPrimIdx + 1].children = Append(@, primIdx)],
        toplevel |-> toplevel]

StorePrimFreshSlot(nodes, primIdx, prim, typeName, variantSets) ==
  [nodes EXCEPT ![primIdx + 1] = [DefaultPrimNode EXCEPT !.prim = prim,
                                                         !.typeName = typeName,
                                                         !.variantNodeMap = variantSets]]

\* The three assignments to the slot of primIdx: prim, typeName and
\* variantNodeMap; the other fields of the slot are not written.
StorePrim(nodes, primIdx, prim, typeName, variantSets) ==
  [nodes EXCEPT ![primIdx + 1].prim = prim,
                ![primIdx + 1].typeName = typeName,
                ![primIdx + 1].variantNodeMap = variantSets]

ReconstructPrimIgnored(T, reconstructOk, e) ==
  [ok |-> TRUE,
   err |-> IF reconstructOk THEN e
           ELSE PushError(e, <<"Failed to reconstruct ", T, " Prim: ">>)]

\* Impl::ReconstructPrim<T>: reconstructOk is the result of the schema's
\* prim::ReconstructPrim; its failure is pushed as an error and returned.
ReconstructPrim(T, reconstructOk, e) ==
  [ok |-> reconstructOk,
   err |-> IF reconstructOk THEN e
           ELSE PushError(e, <<"Failed to reconstruct ", T, " Prim: ">>)]

ModelTypeNameDropped(T, primTypeName) == ""

\* "Store actual Prim typeName also for Model Prim type": the value of
\* Model::prim_type_name ("" stands for a Prim that is no Model).
ModelTypeName(T, primTypeName) == IF T = "Model" THEN primTypeName ELSE ""

\* The lambda registered by RegisterReconstructCallback<T>.  a: the arguments
\* (T, spec, primTypeName, prim_name, primIdx, parentPrimIdx, in_meta,
\* in_variants) and reconstructOk, the result of prim::ReconstructPrim<T>.
PrimConstruct(nodes, toplevel, e, w, a) ==
  LET Unexpected(n, e2, w2) ==
        [ok |-> FALSE, nodes |-> n, toplevel |-> toplevel, err |-> e2, warn |-> w2]
  IN
  IF PrimNameError(a.prim_name) # "" THEN Unexpected(nodes, e, w)
  ELSE IF a.primIdx < 0 THEN Unexpected(nodes, e, w)
  ELSE
  LET pm == ReconstructPrimMeta(a.in_meta, 1, DefaultPrimMeta, e, w) IN
  IF ~pm.ok THEN Unexpected(nodes, pm.err, pm.warn)
  ELSE
  LET rp == ReconstructPrim(a.T, a.reconstructOk, pm.err) IN
  IF ~rp.ok THEN Unexpected(nodes, rp.err, pm.warn)
  ELSE
  LET prim == [ty |-> a.T, name |-> a.prim_name.prim_part, spec |-> a.spec, meta |-> pm.meta,
               prim_type_name |-> ModelTypeName(a.T, a.primTypeName)]
      vs == VariantSetLoop(PresentKeys(a.in_variants), 1, a.in_variants, EmptyMap,
                           nodes, rp.err, pm.warn)
  IN
  IF ~vs.ok THEN Unexpected(vs.nodes, vs.err, vs.warn)
  ELSE
  LET grown == Resize(vs.nodes, a.primIdx + 1, DefaultPrimNode)
      stored == StoreParent(StorePrim(grown, a.primIdx, prim, a.primTypeName, vs.variantSets),
                            a.primIdx, a.parentPrimIdx)
      linked == LinkPrim(stored, toplevel, a.primIdx, a.parentPrimIdx)
  IN [ok |-> TRUE, nodes |-> linked.nodes, toplevel |-> linked.toplevel,
      err |-> vs.err, warn |-> vs.warn]

\* ------------------------------------------------------ GeomSubset callback
\* The lambda registered by RegisterReconstructCallback<GeomSubset>, with
\* well-formed properties.  a.parentPathValid is
\* full_path.get_parent_prim_path().is_valid().
GeomSubsetConstruct(nodes, toplevel, e, w, a) ==
  LET Unexpected(e2, w2) ==
        [ok |-> FALSE, nodes |-> nodes, toplevel |-> toplevel, err |-> e2, warn |-> w2]
  IN
  IF ~a.parentPathValid THEN Unexpected(e, w)
  ELSE IF a.parentPrimIdx < 0 THEN Unexpected(e, w)
  ELSE IF Len(nodes) < a.parentPrimIdx THEN Unexpected(e, w)
  ELSE
  LET pm == ReconstructPrimMeta(a.in_meta, 1, DefaultPrimMeta, e, w) IN
  IF ~pm.ok THEN Unexpected(pm.err, pm.warn)
  ELSE
  LET subset == [ty |-> "GeomSubset", name |-> a.prim_name.prim_part, spec |-> a.spec,
                 meta |-> pm.meta, prim_type_name |-> ""]
      grown == Resize(nodes, a.primIdx + 1, DefaultPrimNode)
      stored == StoreParent([grown EXCEPT ![a.primIdx + 1].prim = subset],
                            a.primIdx, a.parentPrimIdx)
      linked == LinkPrim(stored, toplevel, a.primIdx, a.parentPrimIdx)
  IN [ok |-> TRUE, nodes |-> linked.nodes, toplevel |-> linked.toplevel,
      err |-> pm.err, warn |-> pm.warn]

\* --------------------------------------------------------- PrimSpec callback
\* The lambda registered by RegisterPrimSpecHandler.
PrimSpecConstruct(snodes, stoplevel, a) ==
  IF PrimNameError(a.prim_name) # "" \/ a.primIdx < 0 \/ a.prim_name.prim_part = <<>>
  THEN [ok |-> FALSE, nodes |-> snodes, toplevel |-> stoplevel]
  ELSE
  LET primspec == [name |-> a.prim_name.prim_part, specifier |-> a.spec,
                   typeName |-> a.primTypeName, children |-> <<>>]
      grown == Resize(snodes, a.primIdx + 1, DefaultPrimSpecNode)
      stored == StoreParent([grown EXCEPT ![a.primIdx + 1].primSpec = primspec],
                            a.primIdx, a.parentPrimIdx)
      linked == LinkPrim(stored, stoplevel, a.primIdx, a.parentPrimIdx)
  IN [ok |-> TRUE, nodes |-> linked.nodes, toplevel |-> linked.toplevel]

\* -------------------------------------------------------- reconstruction pass
\* A Prim of the Stage: idx is the store index it was built from.
NullStagePrim == [idx |-> -1, value |-> NullPrim, prim_type_name |-> "",
                  variantSets |-> EmptyMap, children |-> <<>>]

\* The (variant key, child index) pairs of a node in the order the two
\* nested loops over variantNodeMap visit them.
RECURSIVE VariantEntries(_, _)
VariantEntries(variantNodeMap, keys) ==
  IF keys = <<>> THEN <<>>
  ELSE [j \in 1..Len(variantNodeMap[Head(keys)].primChildren) |->
          [key |-> Head(keys), vidx |-> variantNodeMap[Head(keys)].primChildren[j]]]
       \o VariantEntries(variantNodeMap, Tail(keys))

DuplicateVariantChildSkipped(vidx) == [fail |-> FALSE, err |-> <<>>]

DuplicateVariantChildNoMessage(vidx) == [fail |-> TRUE, err |-> <<>>]

\* What the pass does with a variant child index it has already placed:
\* it fails and assigns the message to *err.
DuplicateVariantChild(vidx) ==
  [fail |-> TRUE, err |-> << <<"variant primIdx is referenced multiple times">> >>]

\* The value assigned to *err when an index is out of range.
IndexExceedsErr == << <<"primIndex exceeds prim_nodes.size()">> >>

AlreadyPlacedNever(cidx, visited) == FALSE

\* variantChildrenIndices.count(cidx): the child was placed in a variant.
AlreadyPlaced(cidx, visited) == cidx \in visited

RECURSIVE ConstructPrimTreeRec(_, _)
RECURSIVE VariantChildLoop(_, _, _, _, _)
RECURSIVE ChildLoop(_, _, _, _, _)

\* The loops "for variantNodes / for item / for vidx" of ConstructPrimTreeRec.
VariantChildLoop(entries, i, visited, built, nodes) ==
  IF i > Len(entries)
  THEN [ok |-> TRUE, visited |-> visited, built |-> built, err |-> <<>>]
  ELSE LET vidx == entries[i].vidx
           key == entries[i].key
       IN IF vidx \in visited
          THEN LET d == DuplicateVariantChild(vidx)
               IN IF d.fail
                  THEN [ok |-> FALSE, visited |-> visited, built |-> built, err |-> d.err]
                  ELSE VariantChildLoop(entries, i + 1, visited, built, nodes)
          ELSE IF vidx >= 0 /\ vidx <= Len(nodes)
               THEN LET r == ConstructPrimTreeRec(vidx, nodes)
                    IN IF ~r.ok
                       THEN [ok |-> FALSE, visited |-> visited, built |-> built, err |-> r.err]
                       ELSE VariantChildLoop(entries, i + 1, visited \cup {vidx},
                              [built EXCEPT ![key] = Append(@, r.prim)], nodes)
               ELSE [ok |-> FALSE, visited |-> visited, built |-> built,
                     err |-> IndexExceedsErr]

\* The loop "for cidx : node.children" of ConstructPrimTreeRec.
ChildLoop(children, i, visited, built, nodes) ==
  IF i > Len(children) THEN [ok |-> TRUE, built |-> built, err |-> <<>>]
  ELSE IF AlreadyPlaced(children[i], visited)
       THEN ChildLoop(children, i + 1, visited, built, nodes)
       ELSE LET r == ConstructPrimTreeRec(children[i], nodes)
            IN IF ~r.ok THEN [ok |-> FALSE, built |-> built, err |-> r.err]
               ELSE ChildLoop(children, i + 1, visited, Append(built, r.prim), nodes)

ConstructPrimTreeRec(primIdx, nodes) ==
  IF primIdx >= Len(nodes)
  THEN [ok |-> FALSE, prim |-> NullStagePrim, err |-> IndexExceedsErr]
  ELSE
  LET node == At(nodes, primIdx)
      keys == PresentKeys(node.variantNodeMap)
      vl == VariantChildLoop(VariantEntries(node.variantNodeMap, keys), 1, {},
                             [k \in DOMAIN node.variantNodeMap |-> <<>>], nodes)
  IN
  IF ~vl.ok THEN [ok |-> FALSE, prim |-> NullStagePrim, err |-> vl.err]
  ELSE
  LET cl == ChildLoop(node.children, 1, vl.visited, <<>>, nodes) IN
  IF ~cl.ok THEN [ok |-> FALSE, prim |-> NullStagePrim, err |-> cl.err]
  ELSE [ok |-> TRUE,
        prim |-> [idx |-> primIdx, value |-> node.prim, prim_type_name |-> node.typeName,
                  variantSets |-> [k \in DOMAIN node.variantNodeMap |->
                                     [metas |-> node.variantNodeMap[k].metas,
                                      primChildren |-> vl.built[k]]],
                  children |-> cl.built],
        err |-> <<>>]

RootPrimsNotCleared(root_prims) == root_prims

\* _stage.root_prims().clear(): the root list ReconstructStage starts from.
ClearedRootPrims(root_prims) == <<>>

RECURSIVE ReconstructStageLoopPrepend(_, _, _, _, _)
ReconstructStageLoopPrepend(toplevel, i, root_prims, nodes, e) ==
  IF i > Len(toplevel) THEN [ok |-> TRUE, root_prims |-> root_prims, err |-> e]
  ELSE LET r == ConstructPrimTreeRec(toplevel[i], nodes)
       IN IF ~r.ok THEN [ok |-> FALSE, root_prims |-> root_prims, err |-> r.err]
          ELSE ReconstructStageLoopPrepend(toplevel, i + 1, <<r.prim>> \o root_prims,
                                           nodes, e)

\* The loop over _toplevel_prims of ReconstructStage: stops at the first
\* failure, leaving the roots emplaced so far in the Stage.
RECURSIVE ReconstructStageLoop(_, _, _, _, _)
ReconstructStageLoop(toplevel, i, root_prims, nodes, e) ==
  IF i > Len(toplevel) THEN [ok |-> TRUE, root_prims |-> root_prims, err |-> e]
  ELSE LET r == ConstructPrimTreeRec(toplevel[i], nodes)
       IN IF ~r.ok THEN [ok |-> FALSE, root_prims |-> root_prims, err |-> r.err]
          ELSE ReconstructStageLoop(toplevel, i + 1, Append(root_prims, r.prim), nodes, e)

\* ------------------------------------------------------------------ layer
\* ToPrimSpecRec: every node below `node` and then `node` itself is appended
\* to the children of `parent` (the PrimSpec moved in is the one the store
\* held when GetAsLayer was entered).
RECURSIVE ToPrimSpecRec(_, _, _)
RECURSIVE ToPrimSpecChildren(_, _, _, _)
ToPrimSpecChildren(children, i, snodes, parent) ==
  IF i > Len(children) THEN [ok |-> TRUE, parent |-> parent]
  ELSE IF children[i] >= Len(snodes) THEN [ok |-> FALSE, parent |-> parent]
  ELSE LET r == ToPrimSpecRec(children[i], snodes, parent)
       IN IF ~r.ok THEN r ELSE ToPrimSpecChildren(children, i + 1, snodes, r.parent)

ToPrimSpecRec(idx, snodes, parent) ==
  LET r == ToPrimSpecChildren(At(snodes, idx).children, 1, snodes, parent)
  IN IF ~r.ok THEN r
     ELSE [ok |-> TRUE,
           parent |-> [r.parent EXCEPT !.children = Append(@, At(snodes, idx).primSpec)]]

\* The loop over _toplevel_primspecs of GetAsLayer.
RECURSIVE GetAsLayerLoop(_, _, _, _)
GetAsLayerLoop(stoplevel, i, prim_specs, snodes) ==
  IF i > Len(stoplevel)
  THEN [ok |-> TRUE, prim_specs |-> prim_specs, invalidated |-> TRUE, msg |-> <<>>]
  ELSE IF stoplevel[i] >= Len(snodes)
  THEN [ok |-> FALSE, prim_specs |-> prim_specs, invalidated |-> FALSE,
        msg |-> <<"[Internal Error] out-of-bounds access">>]
  ELSE LET r == ToPrimSpecRec(stoplevel[i], snodes, At(snodes, stoplevel[i]).primSpec)
       IN IF ~r.ok
          THEN [ok |-> FALSE, prim_specs |-> prim_specs, invalidated |-> TRUE,
                msg |-> <<"Construct PrimSpec tree failed">>]
          ELSE GetAsLayerLoop(stoplevel, i + 1, Append(prim_specs, r.parent), snodes)

\* ------------------------------------------------------------ parser inputs
BoundedSeq(S, n) == UNION {[1..k -> S] : k \in 0..n}

KeyIndex(key) == CHOOSE i \in 1..Len(VariantKeyOrder) : VariantKeyOrder[i] = key

\* The VariantSetList of a Prim header: every variant lists, in textual
\* order, indices among the children of the Prim, at most MaxVariantRefs
\* indices in all; a list may end with an index that is out of range (the
\* callback returns at it, so nothing is listed after it), or the second
\* variant may carry metadata of a wrong type after the first has listed a
\* child.
VariantInputs(kind, children, outOfRange) ==
  LET n == IF kind = "variants" THEN MaxVariantRefs ELSE 0
      Sorted(f) == \A i \in 1..Len(f) - 1 : KeyIndex(f[i][1]) <= KeyIndex(f[i + 1][1])
      valid == {f \in BoundedSeq(VariantKeys \X children, n) : Sorted(f)}
      failing == {g \in {Append(f, <<k, bad>>) :
                           f \in {x \in valid : Len(x) < n}, k \in VariantKeys, bad \in outOfRange} :
                    Sorted(g)}
      Of(f, key) == LET sel == SelectSeq(f, LAMBDA x : x[1] = key)
                    IN [j \in 1..Len(sel) |-> sel[j][2]]
      badMeta == IF n = 0 THEN {}
                 ELSE {[key \in {VariantKeyOrder[1], VariantKeyOrder[2]} |->
                          IF key = VariantKeyOrder[1]
                          THEN [metas |-> MetaNone, primIndices |-> <<c>>]
                          ELSE [metas |-> MetaBadActive, primIndices |-> <<>>]] :
                         c \in children}
  IN {[key \in {f[i][1] : i \in 1..Len(f)} |->
         [metas |-> MetaNone, primIndices |-> Of(f, key)]] : f \in valid \cup failing}
     \cup badMeta

SpecifierInputs == {"def"}

TypeNameInputs == {"Xform"}

\* A declared type no callback is registered for.
UnknownTypeNameInputs == {"Wobble"}

\* The playbackMode of the stage metadata of a text.
StageMetaInputs(kind) ==
  IF kind = "stageMetas" THEN {"", "none", "loop", "bogus"} ELSE {""}

\* The configurations a run is made with.
ConfigInputs(kind) ==
  IF kind = "types" THEN {[allow_unknown_prims |-> b] : b \in BOOLEAN} ELSE {DefaultConfig}

\* Type names Read registers a prim-construct callback for (those among
\* them the inputs use).
RegisteredPrimTypes == {"Model", "GPrim", "Xform", "GeomSubset", "Scope"}

\* The callback the parser calls for a Prim of the declared type: the one
\* registered under the type name, else the one of Model when unknown Prims
\* are allowed, else none ("").
PrimConstructFunction(primTypeName, allow_unknown_prim) ==
  IF primTypeName \in RegisteredPrimTypes THEN primTypeName
  ELSE IF allow_unknown_prim THEN "Model"
  ELSE ""

\* The element name of a Prim header breaks the naming rules: it is empty,
\* holds a '/' or a '.' (a property part), or is an absolute or root path.
InvalidElementName(prim_name) ==
  \/ ~prim_name.valid
  \/ prim_name.absolute
  \/ prim_name.prop_part # <<>>
  \/ prim_name.prim_part = <<>>
  \/ "/" \in SeqToSet(prim_name.prim_part)
  \/ "." \in SeqToSet(prim_name.prim_part)

RegisteredCallbacksByLoadState(state) ==
  {"StageMeta", "PrimIdxAssign"}
  \cup (IF state = "Toplevel" THEN {} ELSE {"PrimSpec"})
  \cup RegisteredPrimTypes

\* The callbacks Read registers before it calls _parser.Parse: the same for
\* every load state.
RegisteredCallbacks(state) ==
  {"StageMeta", "PrimIdxAssign", "PrimSpec"} \cup RegisteredPrimTypes

ReadResultAlwaysTrue(parseOk) == TRUE

\* The value Read returns for the result of _parser.Parse.
ReadResult(parseOk) == parseOk

Init ==
  /\ prim_nodes = <<>>
  /\ toplevel_prims = <<>>
  /\ primspec_nodes = <<>>
  /\ toplevel_primspecs = <<>>
  /\ primspec_invalidated = TRUE
  /\ err = <<>>
  /\ warn = <<>>
  /\ stage = [root_prims |-> <<>>, metas |-> DefaultStageMetas]
  /\ layer = [prim_specs |-> <<>>]
  /\ phase = "idle"
  /\ loadState = "Toplevel"
  /\ pstack = <<>>
  /\ assigned = <<>>
  /\ nHeaders = 0
  /\ nCalls = 0
  /\ inputKind \in InputKinds
  /\ config \in ConfigInputs(inputKind)
  /\ registered = {}
  /\ last = [op |-> "none", ret |-> TRUE, prev |-> "none", warnOnly |-> FALSE,
             layerNull |-> FALSE, nameBad |-> FALSE, cause |-> "",
     typeName |-> "", token |-> "", primIdx |-> -1]

\* The record of an operation that returned ret, following operation last.op.
Last(op, ret) == [op |-> op, ret |-> ret, prev |-> last.op, warnOnly |-> FALSE,
                  layerNull |-> FALSE, nameBad |-> FALSE, cause |-> "",
     typeName |-> "", token |-> "", primIdx |-> -1]

\* ------------------------------------------------------------------- Read
\* Read(state) up to the call of _parser.Parse.
ReadBegin ==
  /\ phase = "idle"
  /\ \E state \in LoadStates :
       /\ loadState' = state
       /\ registered' = RegisteredCallbacks(state)
  /\ phase' = "header"
  /\ UNCHANGED <<prim_nodes, toplevel_prims, primspec_nodes, toplevel_primspecs,
                 primspec_invalidated, err, warn, stage, layer, pstack, assigned,
                 nHeaders, nCalls, inputKind, config, last>>

\* The parser has read the top-level metadata block and calls the
\* stage-metadata callback; its failure makes the parser unwind.
ParserStageMeta ==
  /\ phase = "header"
  /\ \E playbackMode \in StageMetaInputs(inputKind) :
       LET r == StageMetaProcessor(playbackMode, stage.metas, err)
       IN /\ stage' = [stage EXCEPT !.metas = r.metas]
          /\ err' = r.err
          /\ phase' = IF r.ok THEN "parsing" ELSE "unwinding"
          /\ last' = [Last("StageMeta", r.ok) EXCEPT
                        !.cause = IF r.ok THEN "" ELSE "stageMeta",
                        !.token = playbackMode]
  /\ UNCHANGED <<prim_nodes, toplevel_prims, primspec_nodes, toplevel_primspecs,
                 primspec_invalidated, warn, layer, loadState, pstack, assigned,
                 nHeaders, nCalls, inputKind, config,
                 registered>>

\* The parser meets a Prim header and calls the index-assign callback.
ParserOpenPrim ==
  /\ phase = "parsing"
  /\ nHeaders < MaxPrims
  /\ LET parentPrimIdx == IF pstack = <<>> THEN -1 ELSE pstack[Len(pstack)].idx
         r == PrimIdxAssign(prim_nodes, parentPrimIdx)
     IN /\ prim_nodes' = r.nodes
        /\ assigned' = Append(assigned, r.idx)
        /\ pstack' = Append(pstack, [idx |-> r.idx, parent |-> parentPrimIdx])
  /\ nHeaders' = nHeaders + 1
  /\ last' = Last("PrimIdxAssign", TRUE)
  /\ UNCHANGED <<toplevel_prims, primspec_nodes, toplevel_primspecs,
                 primspec_invalidated, err, warn, stage, layer, phase, loadState, nCalls, inputKind, config,
                 registered>>

\* The arguments of one prim-construct call for the Prim block top: a text
\* with a well-formed header (any metadata, any variants), or one with a bad
\* name, or one whose schema reconstruction fails, or one of another type.
ConstructArgs(kind, top, nodes) ==
  LET Args(prim_name, spec, tn, in_meta, in_variants, reconstructOk) ==
        [T |-> tn, spec |-> spec, primTypeName |-> tn, prim_name |-> prim_name,
         primIdx |-> top.idx, parentPrimIdx |-> top.parent, in_meta |-> in_meta,
         in_variants |-> in_variants, reconstructOk |-> reconstructOk,
         parentPathValid |-> TRUE]
  IN {Args(PathNameA, spec, tn, in_meta, in_variants, TRUE) :
        spec \in SpecifierInputs, tn \in TypeNameInputs,
        in_meta \in MetaInputsOf(kind),
        in_variants \in VariantInputs(kind, SeqToSet(At(nodes, top.idx).children),
                                      {-1, Len(nodes)})}
     \cup {Args(prim_name, "def", "Xform", MetaNone, EmptyMap, TRUE) :
             prim_name \in PathInputs}
     \cup {Args(PathNameA, "def", "Xform", MetaNone, EmptyMap, FALSE)}
     \cup (IF kind # "names" THEN {}
           ELSE {Args(PathNameB, "def", "Xform", MetaNone, EmptyMap, TRUE)})
     \cup (IF kind # "types" THEN {}
           ELSE {Args(PathNameA, "def", tn, MetaNone, EmptyMap, TRUE) :
                   tn \in UnknownTypeNameInputs}
                \cup {Args(prim_name, "def", "GeomSubset", MetaNone, EmptyMap, TRUE) :
                        prim_name \in PathInputs}
                \cup {[Args(PathNameA, "def", "GeomSubset", MetaNone, EmptyMap, TRUE)
                         EXCEPT !.parentPathValid = FALSE]})

\* The parser completes the body of the innermost open Prim and calls the
\* prim-construct callback: for a Toplevel load the one PrimConstructFunction
\* names, the PrimSpec one otherwise.  A failing callback, or a Prim no
\* callback takes, makes the parser unwind.
ParserClosePrim ==
  /\ phase = "parsing"
  /\ pstack # <<>>
  /\ LET top == pstack[Len(pstack)] IN
       IF loadState = "Toplevel"
       THEN \E a \in ConstructArgs(inputKind, top, prim_nodes) :
              LET fn == PrimConstructFunction(a.primTypeName, config.allow_unknown_prims)
                  r == IF fn = ""
                       THEN [ok |-> FALSE, nodes |-> prim_nodes, toplevel |-> toplevel_prims,
                             err |-> err, warn |-> warn]
                       ELSE IF fn = "GeomSubset"
                       THEN GeomSubsetConstruct(prim_nodes, toplevel_prims, err, warn, a)
                       ELSE PrimConstruct(prim_nodes, toplevel_prims, err, warn,
                                          [a EXCEPT !.T = fn])
                  op == IF fn = "" THEN "UnknownPrimType"
                        ELSE IF fn = "GeomSubset" THEN "GeomSubsetConstruct"
                        ELSE "PrimConstruct"
              IN /\ prim_nodes' = r.nodes
                 /\ toplevel_prims' = r.toplevel
                 /\ err' = r.err
                 /\ warn' = r.warn
                 /\ phase' = IF r.ok THEN "parsing" ELSE "unwinding"
                 /\ last' = [Last(op, r.ok) EXCEPT
                               !.warnOnly = /\ WarnOnlyMeta(a.in_meta)
                                            /\ PrimNameError(a.prim_name) = ""
                                            /\ a.reconstructOk,
                               !.nameBad = fn # "" /\ InvalidElementName(a.prim_name),
                               !.typeName = a.primTypeName,
                               !.primIdx = a.primIdx,
                               !.cause = IF fn = "" THEN "unknownType"
                                         ELSE IF ~a.reconstructOk THEN "schema"
                                         ELSE IF r.ok THEN "" ELSE "callback"]
                 /\ UNCHANGED <<primspec_nodes, toplevel_primspecs>>
       ELSE \E prim_name \in PathInputs, spec \in SpecifierInputs, tn \in TypeNameInputs :
              LET r == PrimSpecConstruct(primspec_nodes, toplevel_primspecs,
                         [spec |-> spec, primTypeName |-> tn, prim_name |-> prim_name,
                          primIdx |-> top.idx, parentPrimIdx |-> top.parent])
              IN /\ primspec_nodes' = r.nodes
                 /\ toplevel_primspecs' = r.toplevel
                 /\ phase' = IF r.ok THEN "parsing" ELSE "unwinding"
                 /\ last' = [Last("PrimSpecConstruct", r.ok) EXCEPT
                               !.nameBad = InvalidElementName(prim_name),
                               !.cause = IF r.ok THEN "" ELSE "callback"]
                 /\ UNCHANGED <<prim_nodes, toplevel_prims, err, warn>>
  /\ pstack' = SubSeq(pstack, 1, Len(pstack) - 1)
  /\ UNCHANGED <<primspec_invalidated, stage, layer, loadState, assigned, nHeaders, nCalls,
                 inputKind, config,
                 registered>>

\* The parser rejects the input on its own (malformed text).
ParserError ==
  /\ phase = "parsing"
  /\ phase' = "unwinding"
  /\ last' = [Last("ParserError", FALSE) EXCEPT !.cause = "parser"]
  /\ UNCHANGED <<prim_nodes, toplevel_prims, primspec_nodes, toplevel_primspecs,
                 primspec_invalidated, err, warn, stage, layer, loadState, pstack,
                 assigned, nHeaders, nCalls, inputKind, config,
                 registered>>

\* The tail of Read: the result of _parser.Parse is turned into Read's result.
ReadEnd ==
  /\ \/ /\ phase = "parsing"
        /\ pstack = <<>>
        /\ phase' = "done"
        /\ last' = Last("Read", ReadResult(TRUE))
        /\ UNCHANGED err
     \/ /\ phase = "unwinding"
        /\ phase' = "failed"
        /\ last' = [Last("Read", ReadResult(FALSE)) EXCEPT !.cause = last.cause]
        /\ \E parserWarned \in BOOLEAN :
             LET pw == IF parserWarned THEN PushWarn(err, warn, <<"<parser> ">>)
                       ELSE [err |-> err, warn |-> warn]
             IN err' = PushError(pw.err, <<"Parse failed:">>)
  /\ UNCHANGED <<prim_nodes, toplevel_prims, primspec_nodes, toplevel_primspecs,
                 primspec_invalidated, warn, stage, layer, loadState, pstack,
                 assigned, nHeaders, nCalls, inputKind, config,
                 registered>>

\* ------------------------------------------------------- ReconstructStage
\* The facade is used as documented: ReconstructStage after a successful
\* Read(Toplevel), GetAsLayer after a successful Read of another load state.
ReconstructStage ==
  /\ phase = "done"
  /\ loadState = "Toplevel"
  /\ nCalls < MaxApiCalls
  /\ LET r == ReconstructStageLoop(toplevel_prims, 1, ClearedRootPrims(stage.root_prims),
                                   prim_nodes, err)
     IN /\ stage' = [stage EXCEPT !.root_prims = r.root_prims]
        /\ err' = r.err
        /\ last' = Last("ReconstructStage", r.ok)
  /\ nCalls' = nCalls + 1
  /\ UNCHANGED <<prim_nodes, toplevel_prims, primspec_nodes, toplevel_primspecs,
                 primspec_invalidated, warn, layer, phase, loadState, pstack,
                 assigned, nHeaders, inputKind, config,
                 registered>>

\* ------------------------------------------------------------- GetAsLayer
GetAsLayer ==
  /\ phase = "done"
  /\ loadState # "Toplevel"
  /\ nCalls < MaxApiCalls
  /\ \E layerNull \in BOOLEAN :
       IF layerNull
       THEN /\ err' = PushError(err, <<"'layer' arg is nullptr.">>)
            /\ last' = [Last("GetAsLayer", FALSE) EXCEPT !.layerNull = TRUE]
            /\ UNCHANGED <<layer, primspec_invalidated>>
       ELSE IF primspec_invalidated
       THEN /\ err' = PushError(err, <<"PrimSpec data is invalid.">>)
            /\ last' = Last("GetAsLayer", FALSE)
            /\ UNCHANGED <<layer, primspec_invalidated>>
       ELSE LET r == GetAsLayerLoop(toplevel_primspecs, 1, <<>>, primspec_nodes)
            IN /\ layer' = [layer EXCEPT !.prim_specs = r.prim_specs]
               /\ primspec_invalidated' = r.invalidated
               /\ err' = IF r.ok THEN err ELSE PushError(err, r.msg)
               /\ last' = Last("GetAsLayer", r.ok)
  /\ nCalls' = nCalls + 1
  /\ UNCHANGED <<prim_nodes, toplevel_prims, primspec_nodes, toplevel_primspecs,
                 warn, stage, phase, loadState, pstack, assigned, nHeaders, inputKind, config,
                 registered>>

Next ==
  \/ ReadBegin
  \/ ParserStageMeta
  \/ ParserOpenPrim
  \/ ParserClosePrim
  \/ ParserError
  \/ ReadEnd
  \/ ReconstructStage
  \/ GetAsLayer

Spec == Init /\ [][Next]_vars

\* ------------------------------------------------- the decoder on its own
\* Keys of a metadata map in the order std::map iterates them.
MetaKeyOrder == <<"active", "apiSchemas", "assetInfo", "comment", "customData",
                  "displayName", "foo", "hidden", "inherits", "kind", "payload",
                  "references", "sceneName", "specializes", "variantSets", "variants">>

MetaKeyIndex(key) == CHOOSE i \in 1..Len(MetaKeyOrder) : MetaKeyOrder[i] = key

ListEditQualInputs == {"ResetToExplicit", "Prepend", "Append"}

KindTokenInputs == {"subcomponent", "component", "model", "group", "assembly",
                    "sceneLibrary", "bogus"}

ApiSchemaListInputs == {<<"SkelBindingAPI", "FooAPI", "MaterialBindingAPI">>,
                        <<"MaterialBindingAPI", "SkelBindingAPI">>,
                        <<"FooAPI">>}

\* Entries the decoder is applied to: for every key a value of a type its
\* branch handles and an int, which no branch handles.
MetaEntryInputs ==
  LET E(k, t, v) == MetaEntry(k, "ResetToExplicit", t, v)
  IN {E("active", "bool", <<"true">>), E("hidden", "bool", <<"false">>),
      E("sceneName", "string", <<"s">>), E("displayName", "string", <<"d">>),
      E("customData", "dictionary", <<"int">>), E("assetInfo", "dictionary", <<"string">>),
      E("variants", "dictionary", <<"string", "StringData">>),
      E("variants", "dictionary", <<"string", "int">>),
      E("inherits", "path[]", <<"/P">>), E("specializes", "path", <<"/P">>),
      E("variantSets", "string[]", <<"v", "w">>), E("variantSets", "None", <<>>),
      E("references", "Reference", <<"@a.usd@">>), E("references", "None", <<>>),
      E("payload", "Reference[]", <<"@a.usd@", "@b.usd@">>),
      E("comment", "string", <<"c">>), E("comment", "StringData", <<"c">>),
      E("foo", "string", <<"x">>)}
     \cup {E(k, "int", <<"1">>) : k \in SeqToSet(MetaKeyOrder) \ {"foo"}}
     \cup {E("kind", "token", <<tok>>) : tok \in KindTokenInputs}
     \cup {MetaEntry("apiSchemas", q, "token[]", toks) :
             q \in ListEditQualInputs, toks \in ApiSchemaListInputs}

\* Metadata maps of at most MaxMetaEntries entries: one entry per key, in
\* key order.
MetaMapInputs ==
  {f \in UNION {[1..k -> MetaEntryInputs] : k \in 0..MaxMetaEntries} :
     \A i \in 1..Len(f) - 1 : MetaKeyIndex(f[i].key) < MetaKeyIndex(f[i + 1].key)}

\* A Reader about to decode the metadata map in_meta of a Prim.
InitMeta ==
  /\ prim_nodes = <<>>
  /\ toplevel_prims = <<>>
  /\ primspec_nodes = <<>>
  /\ toplevel_primspecs = <<>>
  /\ primspec_invalidated = TRUE
  /\ err = <<>>
  /\ warn = <<>>
  /\ stage = [root_prims |-> <<>>, metas |-> DefaultStageMetas]
  /\ layer = [prim_specs |-> <<>>]
  /\ phase = "parsing"
  /\ loadState = "Toplevel"
  /\ pstack = <<>>
  /\ assigned = <<>>
  /\ nHeaders = 0
  /\ nCalls = 0
  /\ inputKind = "metadata"
  /\ config = DefaultConfig
  /\ registered = {}
  /\ \E in_meta \in MetaMapInputs :
       last = [op |-> "input", ret |-> TRUE, in_meta |-> in_meta, meta |-> DefaultPrimMeta]

\* ReconstructPrimMeta(in_meta, &meta) is called once.
DecodeMeta ==
  /\ last.op = "input"
  /\ LET r == ReconstructPrimMeta(last.in_meta, 1, DefaultPrimMeta, err, warn)
     IN /\ err' = r.err
        /\ warn' = r.warn
        /\ last' = [op |-> "ReconstructPrimMeta", ret |-> r.ok,
                    in_meta |-> last.in_meta, meta |-> r.meta]
  /\ UNCHANGED <<prim_nodes, toplevel_prims, primspec_nodes, toplevel_primspecs,
                 primspec_invalidated, stage, layer, phase, loadState, pstack,
                 assigned, nHeaders, nCalls, inputKind, config,
                 registered>>

NextMeta == DecodeMeta

MetaSpec == InitMeta /\ [][NextMeta]_vars

\* ------------------------------------------- Skeleton::get_animationSource
\* A Relationship as get_animationSource reads it: its kind, its single
\* target, its target vector and its list-edit qualifier.
RelationshipTypes == {"DefineOnly", "Path", "PathVector", "ValueBlock"}

TargetPaths == {"/anim0", "/anim1"}

RelationshipInputs ==
  {[type |-> "DefineOnly", targetPath |-> "", targetPathVector |-> <<>>, qual |-> q] :
     q \in ListEditQualInputs}
  \cup {[type |-> "ValueBlock", targetPath |-> "", targetPathVector |-> <<>>, qual |-> q] :
          q \in ListEditQualInputs}
  \cup {[type |-> "Path", targetPath |-> t, targetPathVector |-> <<>>, qual |-> q] :
          t \in TargetPaths, q \in ListEditQualInputs}
  \cup {[type |-> "PathVector", targetPath |-> "", targetPathVector |-> v, qual |-> q] :
          v \in BoundedSeq(TargetPaths, MaxTargets), q \in ListEditQualInputs}

\* The arguments of one call: whether path and qual are null, the values
\* *path and *qual hold before the call, and the Skeleton's animationSource
\* (present is FALSE for an optional without a value).
AnimationSourceInputs ==
  [pathNull : BOOLEAN, qualNull : BOOLEAN, path0 : {""}, qual0 : {"unset"},
   present : {TRUE}, rel : RelationshipInputs]
  \cup [pathNull : BOOLEAN, qualNull : {TRUE}, path0 : {""}, qual0 : {"unset"},
        present : {FALSE}, rel : {CHOOSE r \in RelationshipInputs : r.type = "DefineOnly"}]

\* Skeleton::get_animationSource(path, qual): the value returned, whether
\* animationSource.value() threw, and *path and *qual after the call.
get_animationSource(a) ==
  IF a.pathNull THEN [ret |-> FALSE, thrown |-> FALSE, path |-> a.path0, qual |-> a.qual0]
  ELSE IF ~a.present
  THEN [ret |-> FALSE, thrown |-> TRUE, path |-> a.path0, qual |-> a.qual0]
  ELSE LET q == IF a.qualNull THEN a.qual0 ELSE a.rel.qual
       IN IF a.rel.type = "Path"
          THEN [ret |-> FALSE, thrown |-> FALSE, path |-> a.rel.targetPath, qual |-> q]
          ELSE IF a.rel.type = "PathVector"
          THEN IF Len(a.rel.targetPathVector) > 0
               THEN [ret |-> FALSE, thrown |-> FALSE, path |-> a.rel.targetPathVector[1],
                     qual |-> q]
               ELSE [ret |-> FALSE, thrown |-> FALSE, path |-> a.path0, qual |-> q]
          ELSE [ret |-> FALSE, thrown |-> FALSE, path |-> a.path0, qual |-> q]

\* A Skeleton and the arguments of one get_animationSource call.
InitSkel ==
  /\ prim_nodes = <<>>
  /\ toplevel_prims = <<>>
  /\ primspec_nodes = <<>>
  /\ toplevel_primspecs = <<>>
  /\ primspec_invalidated = TRUE
  /\ err = <<>>
  /\ warn = <<>>
  /\ stage = [root_prims |-> <<>>, metas |-> DefaultStageMetas]
  /\ layer = [prim_specs |-> <<>>]
  /\ phase = "idle"
  /\ loadState = "Toplevel"
  /\ pstack = <<>>
  /\ assigned = <<>>
  /\ nHeaders = 0
  /\ nCalls = 0
  /\ inputKind = "types"
  /\ config = DefaultConfig
  /\ registered = {}
  /\ \E a \in AnimationSourceInputs :
       last = [op |-> "input", args |-> a,
               out |-> [ret |-> FALSE, thrown |-> FALSE, path |-> a.path0, qual |-> a.qual0]]

\* get_animationSource is called once.
GetAnimationSource ==
  /\ last.op = "input"
  /\ last' = [op |-> "get_animationSource", args |-> last.args,
              out |-> get_animationSource(last.args)]
  /\ UNCHANGED <<prim_nodes, toplevel_prims, primspec_nodes, toplevel_primspecs,
                 primspec_invalidated, err, warn, stage, layer, phase, loadState,
                 pstack, assigned, nHeaders, nCalls, inputKind, config, registered>>

NextSkel == GetAnimationSource

SkelSpec == InitSkel /\ [][NextSkel]_vars

\* ------------------------------------------- the reconstruction pass, by steps
\* An edge of a store under the ordering contract: a children entry or a
\* variant primChildren entry of node src that names a greater index.
TreeEdges ==
  {e \in (0..MaxPrims - 1) \X {"child", "variant"} \X (0..MaxPrims - 1) : e[1] < e[3]}

\* The store whose children lists and primChildren lists hold the targets of
\* the edges E, in the order of E.
StoreOfEdges(E) ==
  [n \in 1..MaxPrims |->
     LET Targets(kind) ==
           LET sel == SelectSeq(E, LAMBDA e : e[1] = n - 1 /\ e[2] = kind)
           IN [j \in 1..Len(sel) |-> sel[j][3]]
     IN [DefaultPrimNode EXCEPT
           !.prim = [NullPrim EXCEPT !.ty = "Xform", !.name = <<"A">>],
           !.typeName = "Xform",
           !.children = Targets("child") \o Targets("variant"),
           !.variantNodeMap =
              IF Targets("variant") = <<>> THEN EmptyMap
              ELSE [k \in {VariantKeyOrder[1]} |->
                      [metas |-> DefaultPrimMeta, primChildren |-> Targets("variant")]]]]

\* The indices no edge of E names, in increasing order: the top-level list.
RootsOfEdges(E) ==
  SelectSeq([i \in 1..MaxPrims |-> i - 1], LAMBDA i : \A k \in 1..Len(E) : E[k][3] # i)

\* The frame of a ConstructPrimTreeRec call on primIdx: the loop it is in, the
\* position in that loop and variantChildrenIndices.
TreeFrame(primIdx) == [idx |-> primIdx, inVariants |-> TRUE, k |-> 1, visited |-> {}]

ReturnToCallerNoAdvance(stack) == SubSeq(stack, 1, Len(stack) - 1)

\* A call returns true: its frame is dropped and the loop of the caller goes
\* on to its next entry (a variant child is recorded as placed).
ReturnToCaller(stack) ==
  LET rest == SubSeq(stack, 1, Len(stack) - 1)
      done == stack[Len(stack)]
  IN IF rest = <<>> THEN rest
     ELSE [rest EXCEPT ![Len(rest)] =
             [@ EXCEPT !.k = @ + 1,
                       !.visited = IF rest[Len(rest)].inVariants
                                   THEN @ \cup {done.idx} ELSE @]]

\* A ReconstructStage call on a store that keeps the ordering contract.
InitTree ==
  /\ \E E \in BoundedSeq(TreeEdges, MaxTreeEdges) :
       /\ prim_nodes = StoreOfEdges(E)
       /\ toplevel_prims = RootsOfEdges(E)
  /\ primspec_nodes = <<>>
  /\ toplevel_primspecs = <<>>
  /\ primspec_invalidated = TRUE
  /\ err = <<>>
  /\ warn = <<>>
  /\ stage = [root_prims |-> <<>>, metas |-> DefaultStageMetas]
  /\ layer = [prim_specs |-> <<>>]
  /\ phase = "walking"
  /\ loadState = "Toplevel"
  /\ pstack = <<>>
  /\ assigned = <<>>
  /\ nHeaders = 0
  /\ nCalls = 0
  /\ inputKind = "variants"
  /\ config = DefaultConfig
  /\ registered = {}
  /\ last = [op |-> "ReconstructStage", ret |-> TRUE, top |-> 1, depth |-> 0]

TreeUnchanged ==
  UNCHANGED <<prim_nodes, toplevel_prims, primspec_nodes, toplevel_primspecs,
              primspec_invalidated, err, warn, stage, layer, loadState, assigned,
              nHeaders, nCalls, inputKind, config, registered>>

\* ConstructPrimTreeRec is entered for primIdx: it fails at once for an index
\* beyond the store, else its frame is pushed.
TreeEnter(primIdx, stack) ==
  IF primIdx >= Len(prim_nodes)
  THEN /\ phase' = "returned"
       /\ pstack' = stack
       /\ last' = [last EXCEPT !.ret = FALSE]
  ELSE /\ phase' = "walking"
       /\ pstack' = Append(stack, TreeFrame(primIdx))
       /\ last' = [last EXCEPT !.depth = IF Len(stack) + 1 > @ THEN Len(stack) + 1 ELSE @]

\* The loop of ReconstructStage over the top-level list: the next root is
\* built, or the loop is over and ReconstructStage returns true.
TreeRoot ==
  /\ phase = "walking"
  /\ pstack = <<>>
  /\ IF last.top > Len(toplevel_prims)
     THEN /\ phase' = "returned"
          /\ last' = [last EXCEPT !.ret = TRUE]
          /\ UNCHANGED pstack
     ELSE /\ phase' = "walking"
          /\ pstack' = <<TreeFrame(toplevel_prims[last.top])>>
          /\ last' = [last EXCEPT !.top = @ + 1,
                                  !.depth = IF @ < 1 THEN 1 ELSE @]
  /\ TreeUnchanged

\* One iteration of the loop over the variants of the innermost call.
TreeVariantStep ==
  /\ phase = "walking"
  /\ pstack # <<>>
  /\ pstack[Len(pstack)].inVariants
  /\ LET f == pstack[Len(pstack)]
         node == At(prim_nodes, f.idx)
         entries == VariantEntries(node.variantNodeMap, PresentKeys(node.variantNodeMap))
     IN IF f.k > Len(entries)
        THEN /\ pstack' = [pstack EXCEPT ![Len(pstack)] =
                             [f EXCEPT !.inVariants = FALSE, !.k = 1]]
             /\ UNCHANGED <<phase, last>>
        ELSE LET vidx == entries[f.k].vidx
             IN IF vidx \in f.visited \/ ~(vidx >= 0 /\ vidx <= Len(prim_nodes))
                THEN /\ phase' = "returned"
                     /\ last' = [last EXCEPT !.ret = FALSE]
                     /\ UNCHANGED pstack
                ELSE TreeEnter(vidx, pstack)
  /\ TreeUnchanged

\* One iteration of the loop over the children of the innermost call, or
\* its return when the loop is over.
TreeChildStep ==
  /\ phase = "walking"
  /\ pstack # <<>>
  /\ ~pstack[Len(pstack)].inVariants
  /\ LET f == pstack[Len(pstack)]
         node == At(prim_nodes, f.idx)
     IN IF f.k > Len(node.children)
        THEN /\ pstack' = ReturnToCaller(pstack)
             /\ UNCHANGED <<phase, last>>
        ELSE IF AlreadyPlaced(node.children[f.k], f.visited)
        THEN /\ pstack' = [pstack EXCEPT ![Len(pstack)] = [f EXCEPT !.k = @ + 1]]
             /\ UNCHANGED <<phase, last>>
        ELSE TreeEnter(node.children[f.k], pstack)
  /\ TreeUnchanged

NextTree == TreeRoot \/ TreeVariantStep \/ TreeChildStep

\* The pass is run to its end: no step of it is postponed for ever.
TreeSpec == InitTree /\ [][NextTree]_vars /\ WF_vars(NextTree)

\* ================================================================= properties
\* Every Prim of a list of Stage Prims, in pre-order; the Prims placed in
\* variants follow the ordinary children of their owner.
RECURSIVE PrimsOfSeq(_)
RECURSIVE PrimsOfVariants(_, _)
PrimsOfVariants(p, keys) ==
  IF keys = <<>> THEN <<>>
  ELSE PrimsOfSeq(p.variantSets[Head(keys)].primChildren) \o PrimsOfVariants(p, Tail(keys))

PrimsOfSeq(ps) ==
  IF ps = <<>> THEN <<>>
  ELSE <<Head(ps)>> \o PrimsOfSeq(Head(ps).children)
       \o PrimsOfVariants(Head(ps), PresentKeys(Head(ps).variantSets))
       \o PrimsOfSeq(Tail(ps))

StagePrims == PrimsOfSeq(stage.root_prims)

IdxOf(ps) == [i \in 1..Len(ps) |-> ps[i].idx]

\* The indices listed by the variants of a node, in visiting order.
VariantRefs(node) ==
  LET es == VariantEntries(node.variantNodeMap, PresentKeys(node.variantNodeMap))
  IN [i \in 1..Len(es) |-> es[i].vidx]

HasDuplicate(s) == \E i, j \in 1..Len(s) : i < j /\ s[i] = s[j]

\* Store indices reachable from the top-level list through children and
\* variant edges.
RECURSIVE ReachFrom(_)
ReachFrom(S) ==
  LET N == S \cup UNION {SeqToSet(At(prim_nodes, i).children)
                           \cup SeqToSet(VariantRefs(At(prim_nodes, i))) :
                         i \in {x \in S : x < Len(prim_nodes)}}
  IN IF N = S THEN S ELSE ReachFrom(N)

Reachable == ReachFrom(SeqToSet(toplevel_prims))

StageBuilt == last.op = "ReconstructStage" /\ last.ret

\* C1: the k-th call of the index-assign callback returns k - 1, and the
\* PrimNode store holds exactly one slot per call: the assigned indices are
\* contiguous from 0, strictly increasing and never repeated.
C1_ContiguousIndices ==
  /\ Len(prim_nodes) = Len(assigned)
  /\ \A k \in 1..Len(assigned) : assigned[k] = k - 1

C1_Witness == Len(assigned) >= 3 /\ Len(pstack) >= 2

\* C2: in a Stage built by a successful ReconstructStage, the variants of
\* every Prim hold exactly the Prims of the indices their VariantNode lists,
\* each once, and none of these indices is among the Prim's ordinary
\* children although the node's children list holds it.
C2_VariantSplicing ==
  StageBuilt =>
    \A i \in 1..Len(StagePrims) :
      LET p == StagePrims[i]
          node == At(prim_nodes, p.idx)
      IN /\ DOMAIN p.variantSets = DOMAIN node.variantNodeMap
         /\ \A k \in DOMAIN node.variantNodeMap :
              IdxOf(p.variantSets[k].primChildren) = node.variantNodeMap[k].primChildren
         /\ ~HasDuplicate(VariantRefs(node))
         /\ \A c \in 1..Len(p.children) :
              p.children[c].idx \notin SeqToSet(VariantRefs(node))

C2_Witness ==
  /\ StageBuilt
  /\ \E i \in 1..Len(StagePrims) :
       LET p == StagePrims[i]
           node == At(prim_nodes, p.idx)
       IN /\ \E k \in DOMAIN p.variantSets : p.variantSets[k].primChildren # <<>>
          /\ SeqToSet(VariantRefs(node)) \subseteq SeqToSet(node.children)
          /\ Len(p.children) >= 1

\* C3: when a Prim reachable from the top-level list lists the same child
\* index twice among the primChildren of its variants, ReconstructStage
\* returns false.
C3_DuplicateVariantChildFails ==
  (/\ last.op = "ReconstructStage"
   /\ \E i \in Reachable : HasDuplicate(VariantRefs(At(prim_nodes, i))))
  => ~last.ret

C3_Witness ==
  /\ last.op = "ReconstructStage"
  /\ ~last.ret
  /\ \E i \in Reachable :
       /\ At(prim_nodes, i).parent # -1
       /\ HasDuplicate(VariantRefs(At(prim_nodes, i)))

\* C4: after a successful Read(Toplevel) of N Prim headers and a successful
\* ReconstructStage, every store index in [0, N) is the index of exactly one
\* Prim of the Stage.
C4_ExactlyOnce ==
  (StageBuilt /\ loadState = "Toplevel") =>
    /\ Len(prim_nodes) = nHeaders
    /\ Len(StagePrims) = nHeaders
    /\ \A i \in 0..nHeaders - 1 :
         Cardinality({k \in 1..Len(StagePrims) : StagePrims[k].idx = i}) = 1

C4_Witness ==
  /\ StageBuilt
  /\ loadState = "Toplevel"
  /\ nHeaders >= 3
  /\ \E i \in 1..Len(StagePrims) :
       \E k \in DOMAIN StagePrims[i].variantSets :
         StagePrims[i].variantSets[k].primChildren # <<>>

\* C5: whenever ReconstructStage returns false, the Stage's root Prim list
\* holds none of the Prims built during that pass.
C5_FailureDiscardsRoots ==
  (last.op = "ReconstructStage" /\ ~last.ret) => stage.root_prims = <<>>

\* C6: after a successful Read with a load state other than Toplevel, the
\* first GetAsLayer call with a non-null layer returns true and the layer
\* holds one root PrimSpec per recorded top-level PrimSpec index.
C6_GetAsLayerAfterRead ==
  (/\ last.op = "GetAsLayer"
   /\ ~last.layerNull
   /\ nCalls = 1
   /\ phase = "done"
   /\ loadState # "Toplevel")
  => /\ last.ret
     /\ Len(layer.prim_specs) = Len(toplevel_primspecs)

\* C8: a ReconstructStage call that directly follows a ReconstructStage call
\* leaves the PrimNode store and the top-level list as they were and yields
\* the same Stage, with one root per top-level index at most.
C8_ReconstructIdempotent ==
  [][(last.op = "ReconstructStage" /\ last'.op = "ReconstructStage" /\ nCalls' # nCalls)
       => /\ stage' = stage
          /\ prim_nodes' = prim_nodes
          /\ toplevel_prims' = toplevel_prims
          /\ Len(stage'.root_prims) <= Len(toplevel_prims)]_vars

C8_Witness ==
  /\ last.op = "ReconstructStage"
  /\ last.prev = "ReconstructStage"
  /\ last.ret
  /\ Len(stage.root_prims) >= 2
  /\ \E i \in 1..Len(StagePrims) : StagePrims[i].children # <<>>

\* C9: a prim-construct callback whose only event is a warning succeeds,
\* adds its message to the warning channel and leaves the error string
\* unchanged.
C9_WarningsSeparate ==
  [][(Len(pstack') < Len(pstack) /\ last'.op = "PrimConstruct" /\ last'.warnOnly)
       => /\ last'.ret
          /\ err' = err
          /\ Len(warn') > Len(warn)]_vars

\* C10: whenever Read or ReconstructStage has returned false, the error
\* string is not empty.
C10_ErrorPopulated ==
  (last.op \in {"Read", "ReconstructStage"} /\ ~last.ret) => err # <<>>

C10_Witness ==
  /\ last.op = "ReconstructStage"
  /\ ~last.ret
  /\ err # <<>>

\* ------------------------------------------------ properties of the decoder
Decoded == last.op = "ReconstructPrimMeta"

RecognizedMetaKeys == {"active", "hidden", "kind", "sceneName", "displayName",
                       "customData", "assetInfo", "variants", "inherits",
                       "specializes", "variantSets", "apiSchemas", "references",
                       "payload", "comment"}

\* The value types accepted for a recognized key.
AcceptedTypes(key) ==
  CASE key \in {"active", "hidden"} -> {"bool"}
    [] key = "kind" -> {"token"}
    [] key \in {"sceneName", "displayName"} -> {"string"}
    [] key \in {"customData", "assetInfo", "variants"} -> {"dictionary"}
    [] key \in {"inherits", "specializes"} -> {"None", "path", "path[]"}
    [] key = "variantSets" -> {"None", "string", "StringData", "string[]"}
    [] key = "apiSchemas" -> {"token[]"}
    [] key \in {"references", "payload"} -> {"None", "Reference", "Reference[]"}
    [] key = "comment" -> {"string", "StringData"}

KindTokens == {"subcomponent", "component", "model", "group", "assembly", "sceneLibrary"}

KindEnumValue(tok) ==
  CASE tok = "subcomponent" -> "Kind::Subcomponent"
    [] tok = "component" -> "Kind::Component"
    [] tok = "model" -> "Kind::Model"
    [] tok = "group" -> "Kind::Group"
    [] tok = "assembly" -> "Kind::Assembly"
    [] tok = "sceneLibrary" -> "Kind::SceneLibrary"

\* An entry no rule of the decoder rejects.
Decodable(m) ==
  \/ m.key \notin RecognizedMetaKeys
  \/ /\ m.ty \in AcceptedTypes(m.key)
     /\ m.key = "kind" => m.val[1] \in KindTokens
     /\ m.key = "variants" => SeqToSet(m.val) \subseteq {"string", "StringData"}
     /\ m.key = "apiSchemas" => m.qual \in {"Prepend", "ResetToExplicit"}

\* Some message of the two channels names the value v.
MessageNames(v) ==
  \/ \E k \in 1..Len(err) : v \in SeqToSet(err[k])
  \/ \E k \in 1..Len(warn) : v \in SeqToSet(warn[k])

\* C16: for an apiSchemas entry of type token[], the decoder fails when the
\* list-edit qualifier is neither Prepend nor ResetToExplicit; with one of
\* these it does not fail on the entry, keeps the recognized API names in
\* their input order and drops every other name, a message naming it.
C16_ApiSchemasDecoding ==
  Decoded =>
    \A i \in 1..Len(last.in_meta) :
      LET m == last.in_meta[i] IN
      (m.key = "apiSchemas" /\ m.ty = "token[]") =>
        IF m.qual \notin {"Prepend", "ResetToExplicit"} THEN ~last.ret
        ELSE /\ (\A j \in 1..Len(last.in_meta) : Decodable(last.in_meta[j])) => last.ret
             /\ last.ret =>
                  /\ last.meta.apiSchemas.set
                  /\ last.meta.apiSchemas.qual = m.qual
                  /\ last.meta.apiSchemas.names =
                       SelectSeq(m.val, LAMBDA t : t \in ApiSchemaNames)
                  /\ \A t \in SeqToSet(m.val) \ ApiSchemaNames : MessageNames(t)

C16_Witness ==
  /\ Decoded
  /\ last.ret
  /\ \E i \in 1..Len(last.in_meta) :
       /\ last.in_meta[i].key = "apiSchemas"
       /\ last.in_meta[i].qual = "Prepend"
       /\ last.in_meta[i].val = <<"SkelBindingAPI", "FooAPI", "MaterialBindingAPI">>
  /\ last.meta.apiSchemas.names = <<"SkelBindingAPI", "MaterialBindingAPI">>
  /\ Len(last.in_meta) = 2

\* C17: a value of a recognized key whose type is not one of the types
\* accepted for the key makes the decoder return failure with an error.
C17_StrictTypeCheck ==
  Decoded =>
    \A i \in 1..Len(last.in_meta) :
      LET m == last.in_meta[i] IN
      (m.key \in RecognizedMetaKeys /\ m.ty \notin AcceptedTypes(m.key))
        => (~last.ret /\ err # <<>>)

\* C18: a kind token of the closed set sets PrimMeta.kind to the matching
\* enum value; any other token makes the decoder fail with an error that
\* names the token.
C18_KindDecoding ==
  Decoded =>
    \A i \in 1..Len(last.in_meta) :
      LET m == last.in_meta[i] IN
      (m.key = "kind" /\ m.ty = "token") =>
        IF m.val[1] \in KindTokens
        THEN last.ret => last.meta.kind = KindEnumValue(m.val[1])
        ELSE ~last.ret /\ \E k \in 1..Len(err) : m.val[1] \in SeqToSet(err[k])

\* ------------------------------------------------- properties of the stores
\* A name that is not empty and holds neither '/' nor '.'.
NameOk(name) == name # <<>> /\ "/" \notin SeqToSet(name) /\ "." \notin SeqToSet(name)

\* Indices linked into a store: held by its top-level list or by the
\* children list of one of its nodes.
LinkedIn(nodes, toplevel) ==
  SeqToSet(toplevel) \cup UNION {SeqToSet(nodes[j].children) : j \in 1..Len(nodes)}

\* The number of places of the linkage lists of a store that hold index i.
Occurrences(nodes, toplevel, i) ==
  Cardinality({k \in 1..Len(toplevel) : toplevel[k] = i})
  + Cardinality({jk \in (1..Len(nodes)) \X (1..MaxPrims + 1) :
                   /\ jk[2] <= Len(nodes[jk[1]].children)
                   /\ nodes[jk[1]].children[jk[2]] = i})

\* Each index a callback has stored is linked once, in the list its parent
\* field names; no other index is linked.
ParentConsistent(nodes, toplevel, constructed) ==
  \A i \in 0..Len(nodes) - 1 :
    IF i \in constructed
    THEN /\ Occurrences(nodes, toplevel, i) = 1
         /\ At(nodes, i).parent = -1 => i \in SeqToSet(toplevel)
         /\ At(nodes, i).parent # -1 =>
              /\ At(nodes, i).parent \in 0..Len(nodes) - 1
              /\ i \in SeqToSet(At(nodes, At(nodes, i).parent).children)
    ELSE Occurrences(nodes, toplevel, i) = 0

\* The indices whose callback has stored a Prim (a PrimSpec).
PrimConstructed ==
  {i \in 0..Len(prim_nodes) - 1 : At(prim_nodes, i).prim.ty # "null"}

PrimSpecConstructed ==
  {i \in 0..Len(primspec_nodes) - 1 : At(primspec_nodes, i).primSpec.name # <<>>}

\* The ancestors of index i, following at most n parent fields.
RECURSIVE AncestorsOf(_, _)
AncestorsOf(i, n) ==
  IF n = 0 \/ i < 0 \/ i >= Len(prim_nodes) THEN {}
  ELSE LET p == At(prim_nodes, i).parent
       IN IF p = -1 THEN {} ELSE {p} \cup AncestorsOf(p, n - 1)

\* Indices listed in the primChildren of a variant of some node.
VariantChildren ==
  UNION {SeqToSet(VariantRefs(prim_nodes[j])) : j \in 1..Len(prim_nodes)}

ConstructOps == {"PrimConstruct", "GeomSubsetConstruct", "PrimSpecConstruct"}

\* C11: every prim-construct callback (typed, GeomSubset, PrimSpec) returns
\* failure for a header whose element name is empty, holds '/' or a property
\* part, or is an absolute or root path; every node linked into the PrimNode
\* or the PrimSpec store has a name that is not empty and holds no '/', '.'.
C11_NameValidation ==
  /\ (last.op \in ConstructOps /\ last.nameBad) => ~last.ret
  /\ \A i \in LinkedIn(prim_nodes, toplevel_prims) :
       i < Len(prim_nodes) => NameOk(At(prim_nodes, i).prim.name)
  /\ \A i \in LinkedIn(primspec_nodes, toplevel_primspecs) :
       i < Len(primspec_nodes) => NameOk(At(primspec_nodes, i).primSpec.name)

\* C12: after a successful Read, the index of every node of the PrimNode
\* store is greater than its parent index when it has one, and greater than
\* the index of each of its ancestors.
C12_ParentBeforeChild ==
  (phase = "done" /\ loadState = "Toplevel") =>
    \A i \in 0..Len(prim_nodes) - 1 :
      /\ At(prim_nodes, i).parent # -1 => i > At(prim_nodes, i).parent
      /\ \A a \in AncestorsOf(i, Len(prim_nodes)) : i > a

C12_Witness ==
  /\ phase = "done"
  /\ loadState = "Toplevel"
  /\ \E i \in 0..Len(prim_nodes) - 1 : Cardinality(AncestorsOf(i, Len(prim_nodes))) >= 2

\* C13: while every prim-construct callback so far has succeeded, each
\* stored index is held by exactly one linkage list, once: the top-level list
\* when its parent is -1, else the children list of its parent.
C13_ParentConsistency ==
  (phase \in {"parsing", "done"}) =>
    /\ ParentConsistent(prim_nodes, toplevel_prims, PrimConstructed)
    /\ ParentConsistent(primspec_nodes, toplevel_primspecs, PrimSpecConstructed)

C13_Witness ==
  /\ phase = "parsing"
  /\ pstack # <<>>
  /\ \E i \in 0..Len(prim_nodes) - 1 :
       /\ i \in PrimConstructed
       /\ At(prim_nodes, i).parent # -1
       /\ At(prim_nodes, i).parent \notin PrimConstructed

\* C14: after a successful Read, parent_is_variant of a node is true exactly
\* when its index is among the primChildren of a variant of some node.
C14_ParentIsVariant ==
  (phase = "done" /\ loadState = "Toplevel") =>
    \A i \in 0..Len(prim_nodes) - 1 :
      At(prim_nodes, i).parent_is_variant <=> i \in VariantChildren

C14_Witness ==
  /\ phase = "done"
  /\ loadState = "Toplevel"
  /\ \E i, j \in 0..Len(prim_nodes) - 1 :
       /\ At(prim_nodes, i).parent_is_variant
       /\ At(prim_nodes, j).parent # -1
       /\ ~At(prim_nodes, j).parent_is_variant

\* C15: with allow_unknown_prims set, a Prim whose declared type matches no
\* typed callback is stored as a Model whose prim_type_name is the declared
\* type name, under the element name of its header; it is reconstructed into
\* the Stage as such, and the Read does not fail because of it.
C15_UnknownTypeFallback ==
  /\ \A i \in 0..Len(prim_nodes) - 1 :
       LET node == At(prim_nodes, i)
       IN (node.typeName # "" /\ node.typeName \notin RegisteredPrimTypes) =>
            /\ config.allow_unknown_prims
            /\ node.prim.ty = "Model"
            /\ node.prim.prim_type_name = node.typeName
            /\ NameOk(node.prim.name)
  /\ \A p \in SeqToSet(StagePrims) :
       (p.prim_type_name # "" /\ p.prim_type_name \notin RegisteredPrimTypes) =>
         /\ p.value.ty = "Model"
         /\ p.value.prim_type_name = p.prim_type_name
  /\ (/\ config.allow_unknown_prims
      /\ last.op = "PrimConstruct"
      /\ last.typeName \notin RegisteredPrimTypes
      /\ ~last.nameBad
      /\ last.cause # "schema") => last.ret
  /\ (config.allow_unknown_prims /\ phase \in {"unwinding", "failed"}) =>
       last.cause # "unknownType"

C15_Witness ==
  /\ config.allow_unknown_prims
  /\ phase = "done"
  /\ \E p \in SeqToSet(StagePrims) :
       /\ p.prim_type_name \in UnknownTypeNameInputs
       /\ p.value.ty = "Model"
       /\ p.value.prim_type_name \in UnknownTypeNameInputs
       /\ p.value.name = <<"A">>

CallbackOps == ConstructOps \cup {"StageMeta", "UnknownPrimType"}

\* The stores and linkage lists the callbacks of a Read write, and the
\* parser's record of the headers it has seen.
ReadStores == <<prim_nodes, toplevel_prims, primspec_nodes, toplevel_primspecs,
                stage, pstack, assigned, nHeaders>>

C20_Cancellation ==
  /\ []((last.op \in CallbackOps /\ ~last.ret) => phase = "unwinding")
  /\ [][phase = "unwinding" =>
          /\ phase' = "failed"
          /\ last'.op = "Read"
          /\ ~last'.ret
          /\ UNCHANGED ReadStores]_vars
  /\ [][phase = "failed" => (phase' = "failed" /\ UNCHANGED ReadStores)]_vars

C20_Witness ==
  /\ phase = "failed"
  /\ last.op = "Read"
  /\ last.cause = "callback"
  /\ ~last.ret
  /\ Len(prim_nodes) >= 2
  /\ toplevel_prims # <<>>
  /\ pstack # <<>>

\* C21: the stage-metadata callback maps the token "none" to
\* PlaybackModeNone and "loop" to PlaybackModeLoop; for any other authored
\* token it pushes an error and returns failure, leaving the Stage's value as
\* it was; an absent playbackMode leaves the Stage's value unset.
C21_PlaybackMode ==
  last.op = "StageMeta" =>
    CASE last.token = "none" ->
           last.ret /\ stage.metas.playbackMode = "PlaybackModeNone" /\ err = <<>>
      [] last.token = "loop" ->
           last.ret /\ stage.metas.playbackMode = "PlaybackModeLoop" /\ err = <<>>
      [] last.token = "" ->
           last.ret /\ stage.metas.playbackMode = "unset" /\ err = <<>>
      [] OTHER ->
           /\ ~last.ret
           /\ phase = "unwinding"
           /\ stage.metas.playbackMode = "unset"
           /\ err # <<>>
           /\ last.token \in SeqToSet(err[Len(err)])

C21_Witness ==
  /\ last.op = "StageMeta"
  /\ last.token \notin {"", "none", "loop"}
  /\ ~last.ret

\* Two Prims at different places of the sequence ps have the same element name.
SameNameSiblings(ps) ==
  \E i, j \in 1..Len(ps) : i < j /\ ps[i].value.name = ps[j].value.name

\* C22: in a successfully reconstructed Stage no two root Prims, and no two
\* ordinary children of one Prim, have the same element name.
C22_SiblingNamesUnique ==
  StageBuilt =>
    /\ ~SameNameSiblings(stage.root_prims)
    /\ \A p \in SeqToSet(StagePrims) : ~SameNameSiblings(p.children)

\* The PrimSpec ps has the name of the PrimSpec stored at index i and, as
\* children, the PrimSpecs of the children of node i, in that order, each
\* nested in the same way (n bounds the depth).
RECURSIVE MirrorsStore(_, _, _)
MirrorsStore(ps, i, n) ==
  /\ n > 0
  /\ i < Len(primspec_nodes)
  /\ LET node == At(primspec_nodes, i)
     IN /\ ps.name = node.primSpec.name
        /\ Len(ps.children) = Len(node.children)
        /\ \A j \in 1..Len(node.children) :
             MirrorsStore(ps.children[j], node.children[j], n - 1)

\* C23: the roots the loop of GetAsLayer builds from the PrimSpec store of a
\* successful Read are one per top-level index, in top-level order, and each
\* root nests the PrimSpecs of its node's children as the store nests them.
C23_LayerMirrorsStore ==
  (phase = "done" /\ loadState # "Toplevel") =>
    LET r == GetAsLayerLoop(toplevel_primspecs, 1, <<>>, primspec_nodes)
    IN r.ok =>
         /\ Len(r.prim_specs) = Len(toplevel_primspecs)
         /\ \A k \in 1..Len(toplevel_primspecs) :
              MirrorsStore(r.prim_specs[k], toplevel_primspecs[k], MaxPrims + 1)

\* The indices of s are strictly increasing: the order of the headers.
HeaderOrder(s) == \A i, j \in 1..Len(s) : i < j => s[i] < s[j]

\* The children list of node i without the indices its variants list.
OrdinaryChildren(i) ==
  LET node == At(prim_nodes, i)
  IN SelectSeq(node.children, LAMBDA c : c \notin SeqToSet(VariantRefs(node)))

\* C24: in a reconstructed Stage the root Prims are in the order of the
\* top-level list and the ordinary children of every Prim are in the order of
\* its node's children list without the variant children; both orders are
\* the order of the sibling headers (increasing index).
C24_ChildOrdering ==
  StageBuilt =>
    /\ IdxOf(stage.root_prims) = toplevel_prims
    /\ HeaderOrder(IdxOf(stage.root_prims))
    /\ \A p \in SeqToSet(StagePrims) :
         /\ IdxOf(p.children) = OrdinaryChildren(p.idx)
         /\ HeaderOrder(IdxOf(p.children))

C24_Witness ==
  /\ StageBuilt
  /\ Len(stage.root_prims) >= 2
  /\ \E k \in 1..Len(stage.root_prims) : Len(stage.root_prims[k].children) >= 1

\* C25: after a successful typed or GeomSubset prim-construct callback the
\* node at the assigned index records the type name declared in the header,
\* and every Prim of a reconstructed Stage has that name as prim_type_name.
C25_TypeNameKept ==
  /\ (last.op \in {"PrimConstruct", "GeomSubsetConstruct"} /\ last.ret) =>
       At(prim_nodes, last.primIdx).typeName = last.typeName
  /\ StageBuilt =>
       \A p \in SeqToSet(StagePrims) :
         p.prim_type_name = IF p.value.ty = "Model" THEN p.value.prim_type_name
                            ELSE p.value.ty

\* C26: Read registers the stage-metadata callback, the index-assign
\* callback and the typed prim-construct callbacks for every load state, and
\* the PrimSpec callback exactly when the load state is not Toplevel.
C26_RegistrationByLoadState ==
  phase # "idle" =>
    /\ {"StageMeta", "PrimIdxAssign"} \cup RegisteredPrimTypes \subseteq registered
    /\ "PrimSpec" \in registered <=> loadState # "Toplevel"

\* C26 (as the code behaves): Read registers the stage-metadata callback, the
\* index-assign callback, the PrimSpec callback and the typed prim-construct
\* callbacks for every load state, Toplevel included; the load state decides
\* only which prim-construct callback the parser calls.
C26_RegistrationUnconditional ==
  /\ phase # "idle" =>
       registered = {"StageMeta", "PrimIdxAssign", "PrimSpec"} \cup RegisteredPrimTypes
  /\ last.op = "PrimSpecConstruct" => loadState # "Toplevel"
  /\ last.op \in {"PrimConstruct", "GeomSubsetConstruct"} => loadState = "Toplevel"

C26_Witness ==
  /\ loadState = "Toplevel"
  /\ "PrimSpec" \in registered
  /\ last.op = "PrimConstruct"
  /\ last.ret

\* The relationship of a call holds a path: a single path or a path vector
\* that is not empty.
HoldsPath(a) ==
  /\ a.present
  /\ \/ a.rel.type = "Path"
     \/ a.rel.type = "PathVector" /\ Len(a.rel.targetPathVector) > 0

TargetOf(rel) == IF rel.type = "Path" THEN rel.targetPath ELSE rel.targetPathVector[1]

\* C27: get_animationSource called with a non-null path on a Skeleton whose
\* animationSource holds a path writes the target (the first one of a
\* vector) to *path and returns true; it returns false only when path is
\* null or the relationship holds no path.
C27_GetAnimationSource ==
  (last.op = "get_animationSource" /\ last.args.present) =>
    /\ (~last.args.pathNull /\ HoldsPath(last.args)) =>
         (last.out.ret /\ last.out.path = TargetOf(last.args.rel))
    /\ ~last.out.ret => (last.args.pathNull \/ ~HoldsPath(last.args))

\* C28: a successful typed prim-construct callback for index i leaves the
\* children list and the parent_is_variant flag of slot i as they were; of
\* the other slots it changes only the parent_is_variant flag of the indices
\* its variants list (set to true) and the children list of its parent (i is
\* appended); the store keeps its size.
C28_FrameEffect ==
  [][(last'.op = "PrimConstruct" /\ last'.ret) =>
       LET i == last'.primIdx
           self == At(prim_nodes', i)
       IN /\ Len(prim_nodes') = Len(prim_nodes)
          /\ self.children = At(prim_nodes, i).children
          /\ self.parent_is_variant = At(prim_nodes, i).parent_is_variant
          /\ \A j \in (0..Len(prim_nodes) - 1) \ {i} :
               LET old == At(prim_nodes, j)
                   new == At(prim_nodes', j)
               IN /\ new.prim = old.prim
                  /\ new.typeName = old.typeName
                  /\ new.variantNodeMap = old.variantNodeMap
                  /\ new.parent = old.parent
                  /\ new.children = IF j = self.parent THEN Append(old.children, i)
                                    ELSE old.children
                  /\ new.parent_is_variant =
                       (old.parent_is_variant \/ j \in SeqToSet(VariantRefs(self)))]_vars

C28_Witness ==
  /\ last.op = "PrimConstruct"
  /\ last.ret
  /\ LET self == At(prim_nodes, last.primIdx)
     IN /\ self.children # <<>>
        /\ self.parent # -1
        /\ VariantRefs(self) # <<>>

\* C29: a typed prim-construct callback that returns failure leaves every
\* field of every slot of the PrimNode store, and the top-level list, as
\* they were before the call.
C29_FailureLeavesStores ==
  [][(last'.op = "PrimConstruct" /\ ~last'.ret) =>
       (prim_nodes' = prim_nodes /\ toplevel_prims' = toplevel_prims)]_vars

\* C30: on a store that keeps the ordering contract ReconstructStage comes
\* to an end, returning true or false; every ConstructPrimTreeRec call is on
\* an index greater than its caller's, so the calls in progress never hold
\* an index twice and are never more than the store has nodes.
C30_ReconstructionTerminates ==
  /\ <>(phase = "returned")
  /\ [](\A k \in 2..Len(pstack) : pstack[k].idx > pstack[k - 1].idx)
  /\ [](Len(pstack) <= Len(prim_nodes))

C30_Witness ==
  /\ phase = "returned"
  /\ last.ret
  /\ last.depth = MaxPrims

====
